---- MODULE Spec2Model ----
(***************************************************************************)
(* A model of the templater of src/esm/Templater.ts: make (compilation of  *)
(* a template into blocks), write (filling a template) and read (scanning  *)
(* a filled-out template).                                                 *)
(*                                                                         *)
(* A string is a sequence of one-character strings.  Indices kept by the   *)
(* program (startIndex, endIndex, targetIndex, positions) are 0-based as   *)
(* in the source; a sequence s of the model holds JS element i at s[i+1].  *)
(***************************************************************************)
EXTENDS Integers, Sequences, FiniteSets, TLC

VARIABLES
    pc,                \* where the program is: "search", "chop", "made", "written", "scan", "read"
    template,          \* make: the template
    targets,           \* make: the targets
    remaining,         \* make: what Array.chop has still to partition
    chopped,           \* make: what Array.chop has output so far
    self,              \* the compiled template: <<textAndTargetArray, finalStaticText, targets>>
    targetValues,      \* write: the values
    written,           \* write: the returned string
    targetPatterns,    \* read: the patterns
    filledOutTemplate, \* read: the string to scan
    position,          \* read: the index of the next block Array.mapAccum visits
    leftToReadEither,  \* read: the accumulator of Array.mapAccum
    values,            \* read: the elements Array.mapAccum has output so far
    result             \* read: the returned Either

vars == <<pc, template, targets, remaining, chopped, self, targetValues, written,
          targetPatterns, filledOutTemplate, position, leftToReadEither, values, result>>

-----------------------------------------------------------------------------
(* Bounds of the model *)

MaxTemplateLen == 3
MaxTargets == 2
MaxTargetLen == 2

\* Array.chop outputs at most one occurrence per character of the template when
\* it ends; one more iteration than that is enough to see it not ending
MaxChopped == MaxTemplateLen + 1

\* write and read: the compiled templates they are given, the values written
\* and the strings scanned
MaxCompiledTemplateLen == 3
MaxCompiledTargets == 2
MaxValueLen == 1
MaxFilledOutLen == 3

Alphabet == {"a", "b"}

\* The patterns read is given: /^a/ and /^b*/
Patterns == {<<"^", "a">>, <<"^", "b", "*">>}

\* The strings over A of length at most n
Strs(A, n) == UNION {[1..k -> A] : k \in 0..n}

\* The lists over S of length at most n
Lists(S, n) == UNION {[1..k -> S] : k \in 0..n}

Nothing == <<>>

-----------------------------------------------------------------------------
(* JavaScript and effect primitives *)

Min(a, b) == IF a < b THEN a ELSE b
Max(a, b) == IF a > b THEN a ELSE b

\* String.prototype.substring(start, end): both clamped to [0, length], swapped
\* when start > end
Substring(s, start, end) ==
    LET a == Max(0, Min(start, Len(s)))
        b == Max(0, Min(end, Len(s)))
    IN  SubSeq(s, Min(a, b) + 1, Max(a, b))

\* String.prototype.substring(start)
SubstringFrom(s, start) == Substring(s, start, Len(s))

\* Array.join(''), on an array of strings
RECURSIVE Join(_)
Join(ss) == IF ss = <<>> THEN <<>> ELSE Head(ss) \o Join(Tail(ss))

\* Option
None == [_tag |-> "None"]
Some(v) == [_tag |-> "Some", value |-> v]

\* Either
Right(v) == [_tag |-> "Right", right |-> v]
Left(e) == [_tag |-> "Left", left |-> e]

\* Array.get: 0-based, none when out of range
ArrayGet(arr, i) == IF i >= 0 /\ i < Len(arr) THEN Some(arr[i + 1]) ELSE None

-----------------------------------------------------------------------------
(* make *)

\* The leftmost index >= from at which needle occurs in haystack, -1 if none
IndexOf(needle, haystack, from) ==
    LET hits == {p \in from..(Len(haystack) - Len(needle)) :
                    SubSeq(haystack, p + 1, p + Len(needle)) = needle}
    IN  IF hits = {} THEN -1 ELSE CHOOSE p \in hits : \A q \in hits : p <= q

\* MString.searchAll: every occurrence of needle in haystack, left to right, each
\* search resuming where the previous occurrence ends (one further for a
\* zero-length occurrence)
RECURSIVE SearchFrom(_, _, _)
SearchFrom(needle, haystack, from) ==
    LET p == IndexOf(needle, haystack, from)
    IN  IF p = -1
        THEN <<>>
        ELSE <<[startIndex |-> p, endIndex |-> p + Len(needle)]>>
             \o SearchFrom(needle, haystack, IF Len(needle) = 0 THEN p + 1 ELSE p + Len(needle))

SearchAll(needle, haystack) == SearchFrom(needle, haystack, 0)

\* MArray.ungroup after Array.map(searchAll): the occurrences of every target,
\* each paired with the index of its target, target after target
RECURSIVE Ungroup(_, _)
Ungroup(groups, index) ==
    IF groups = <<>>
    THEN <<>>
    ELSE [i \in 1..Len(Head(groups)) |-> <<index, Head(groups)[i]>>]
         \o Ungroup(Tail(groups), index + 1)

\* A slip: the end index compared in ascending order
SearchResultLessByEndIndex(x, y) ==
    \/ x.startIndex < y.startIndex
    \/ x.startIndex = y.startIndex /\ x.endIndex < y.endIndex

\* MString.searchResultByStartIndexAndReverseEndIndex: is x strictly before y
SearchResultLess(x, y) ==
    \/ x.startIndex < y.startIndex
    \/ x.startIndex = y.startIndex /\ x.endIndex > y.endIndex

\* The order of Array.sort, through Order.mapInput on the search result
IndexedLess(x, y) == SearchResultLess(x[2], y[2])

\* Array.sort is stable: x goes behind every element that is not after it
RECURSIVE Insert(_, _)
Insert(x, sorted) ==
    IF sorted = <<>>
    THEN <<x>>
    ELSE IF IndexedLess(x, Head(sorted))
         THEN <<x>> \o sorted
         ELSE <<Head(sorted)>> \o Insert(x, Tail(sorted))

RECURSIVE Sort(_)
Sort(arr) ==
    IF arr = <<>> THEN <<>> ELSE Insert(arr[Len(arr)], Sort(SubSeq(arr, 1, Len(arr) - 1)))

\* make, up to Array.chop: the sorted occurrences of all targets
IndexedSearchResults(tmpl, tgts) ==
    Sort(Ungroup([i \in 1..Len(tgts) |-> SearchAll(tgts[i], tmpl)], 0))

\* Array.dropWhile(indexedSearchResults, ([_, { startIndex }]) => startIndex < upperBound)
RECURSIVE DropWhile(_, _)
DropWhile(arr, upperBound) ==
    IF arr # <<>> /\ Head(arr)[2].startIndex < upperBound
    THEN DropWhile(Tail(arr), upperBound)
    ELSE arr

\* The function make passes to Array.chop: the kept occurrence and what is left
ChopStep(indexedSearchResults) ==
    LET head == Head(indexedSearchResults)
        upperBound == head[2].endIndex
    IN  <<head, DropWhile(indexedSearchResults, upperBound)>>

\* Array.chop, for the inputs on which it ends
RECURSIVE ChopAll(_)
ChopAll(arr) ==
    IF arr = <<>>
    THEN <<>>
    ELSE LET step == ChopStep(arr) IN <<step[1]>> \o ChopAll(step[2])

\* A slip: the next start position is the start of the occurrence, not its end
BlockOfFromStart(tmpl, startPos, kept) ==
    <<kept[2].startIndex, <<Substring(tmpl, startPos, kept[2].startIndex), kept[1]>>>>

\* The function make passes to Array.mapAccum: the next start position, and the block
BlockOf(tmpl, startPos, kept) ==
    <<kept[2].endIndex, <<Substring(tmpl, startPos, kept[2].startIndex), kept[1]>>>>

\* Array.mapAccum(0, ...): <<the final accumulator, the blocks>>
RECURSIVE MapAccumBlocks(_, _, _)
MapAccumBlocks(tmpl, startPos, keptSeq) ==
    IF keptSeq = <<>>
    THEN <<startPos, <<>>>>
    ELSE LET one == BlockOf(tmpl, startPos, Head(keptSeq))
             rest == MapAccumBlocks(tmpl, one[1], Tail(keptSeq))
         IN  <<rest[1], <<one[2]>> \o rest[2]>>

\* make, from the output of Array.chop on: Tuple.mapBoth, Tuple.swap, Tuple.appendElement
Compiled(tmpl, tgts, keptSeq) ==
    LET acc == MapAccumBlocks(tmpl, 0, keptSeq)
    IN  <<acc[2], SubstringFrom(tmpl, acc[1]), tgts>>

\* make as a whole, for the inputs on which Array.chop ends
make(tmpl, tgts) == Compiled(tmpl, tgts, ChopAll(IndexedSearchResults(tmpl, tgts)))

-----------------------------------------------------------------------------
(* write *)

\* Option.getOrElse
GetOrElse(option, default) == IF option._tag = "Some" THEN option.value ELSE default

\* A slip: the value of a block is looked up in the targets, not in the values
writeTargets(slf, tv) ==
    LET BlockText(block) == Join(<<block[1], GetOrElse(ArrayGet(slf[3], block[2]), <<>>)>>)
    IN  Join(<<Join([i \in 1..Len(slf[1]) |-> BlockText(slf[1][i])]), slf[2]>>)

\* write: every block is its static text joined to the value at its target
\* index, '' when there is none; the blocks are joined, then the final static text
write(slf, tv) ==
    LET firstTwo == <<slf[1], slf[2]>>
        BlockText(block) == Join(<<block[1], GetOrElse(ArrayGet(tv, block[2]), <<>>)>>)
        onFirst == Join([i \in 1..Len(firstTwo[1]) |-> BlockText(firstTwo[1][i])])
    IN  Join(<<onFirst, firstTwo[2]>>)

-----------------------------------------------------------------------------
(* read *)

\* A string value in a place the source types as an Option: read's result
JsString(v) == [_tag |-> "String", value |-> v]

NoSuchElementException == [_tag |-> "NoSuchElementException"]

BadFormat(expected, actual, positions) ==
    [_tag |-> "BadFormat", expected |-> expected, actual |-> actual, positions |-> positions]

TooMany(id, positions, elements) ==
    [_tag |-> "TooMany", id |-> id, positions |-> positions, elements |-> elements]

\* MBadArgumentError.BadFormat.check: actual must be expected
BadFormatCheck(expected, positions, actual) ==
    IF actual = expected THEN Right(actual) ELSE Left(BadFormat(expected, actual, positions))

\* The longest prefix of s made of the character c only
RECURSIVE Run(_, _)
Run(c, s) == IF s # <<>> /\ Head(s) = c THEN <<c>> \o Run(c, Tail(s)) ELSE <<>>

\* What a pattern matches at the start of s.  A pattern is the source of an
\* anchored regular expression: ^ and then either one character and * or
\* characters, of which . stands for any
Match(pattern, s) ==
    IF pattern[Len(pattern)] = "*"
    THEN Some(Run(pattern[2], s))
    ELSE LET literal == Tail(pattern)
         IN  IF /\ Len(s) >= Len(literal)
                /\ \A i \in 1..Len(literal) : literal[i] = "." \/ literal[i] = s[i]
             THEN Some(SubSeq(s, 1, Len(literal)))
             ELSE None

\* MBadArgumentError.BadFormat.extractMatch: the part of actual the pattern matches
ExtractMatch(pattern, positions, actual) ==
    LET m == Match(pattern, actual)
    IN  IF m._tag = "Some" THEN Right(m.value) ELSE Left(BadFormat(pattern, actual, positions))

\* MString.splitAt
SplitAt(n, s) == <<Substring(s, 0, n), SubstringFrom(s, n)>>

\* MEither.optionFromOptional: a NoSuchElementException is a none, any other
\* left stays
OptionFromOptional(either) ==
    IF either._tag = "Right"
    THEN Right(Some(either.right))
    ELSE IF either.left = NoSuchElementException THEN Right(None) ELSE either

\* MEither.traversePair
TraversePair(either) ==
    IF either._tag = "Right"
    THEN <<Right(either.right[1]), Right(either.right[2])>>
    ELSE <<either, either>>

\* Either.all on an array: the first left, or the rights
RECURSIVE EitherAll(_)
EitherAll(eithers) ==
    IF eithers = <<>>
    THEN Right(<<>>)
    ELSE IF Head(eithers)._tag = "Left"
         THEN Head(eithers)
         ELSE LET rest == EitherAll(Tail(eithers))
              IN  IF rest._tag = "Left" THEN rest ELSE Right(<<Head(eithers).right>> \o rest.right)

\* Option.all on an array: none if one is none, or the values
OptionAll(options) ==
    IF \E i \in 1..Len(options) : options[i]._tag = "None"
    THEN None
    ELSE Some([i \in 1..Len(options) |-> options[i].value])

\* The elements of arr that keep holds of, in order
RECURSIVE Filter(_, _)
Filter(arr, keep) ==
    IF arr = <<>>
    THEN <<>>
    ELSE (IF Head(arr) \in keep THEN <<Head(arr)>> ELSE <<>>) \o Filter(Tail(arr), keep)

\* MArray.findAll: the indices at which the first of the pair is key
FindAll(pairs, key) ==
    LET indices == [i \in 1..Len(pairs) |-> i - 1]
    IN  Filter(indices, {i \in 0..(Len(pairs) - 1) : pairs[i + 1][1] = key})

\* MArray.groupByNum: size groups, group key holding the second of every pair
\* whose first is key
GroupByNum(size, pairs) ==
    [k \in 1..size |->
        LET at == FindAll(pairs, k - 1) IN [j \in 1..Len(at) |-> pairs[at[j] + 1][2]]]

\* read, lines 115-128: every block with the pattern of its target
TextAndPatternArray(slf, patterns) ==
    [i \in 1..Len(slf[1]) |->
        LET got == ArrayGet(patterns, slf[1][i][2])
        IN  <<slf[1][i][1], slf[1][i][2],
              IF got._tag = "Some" THEN Right(got.value) ELSE Left(NoSuchElementException)>>]

\* A slip: the static text is only compared with as many characters as are left
StripStaticTextOfWhatIsLeft(leftToRead, staticText, pos) ==
    LET split == SplitAt(Len(staticText), leftToRead)
    IN  EitherAll(<<BadFormatCheck(Substring(staticText, 0, Len(split[1])), <<pos>>, split[1]),
                    Right(split[2])>>)

\* read, lines 141-155: the static text of the block is stripped from leftToRead
StripStaticText(leftToRead, staticText, pos) ==
    LET split == SplitAt(Len(staticText), leftToRead)
    IN  EitherAll(<<BadFormatCheck(staticText, <<pos>>, split[1]), Right(split[2])>>)

\* read, lines 157-172: the value the pattern of the target matches, if there is
\* a pattern
TargetValue(targetPattern, strippedOfStaticText, pos) ==
    OptionFromOptional(
        IF targetPattern._tag = "Right"
        THEN ExtractMatch(targetPattern.right, <<pos>>, strippedOfStaticText)
        ELSE targetPattern)

\* The function read passes to Array.mapAccum, lines 136-184: the next
\* accumulator and the element output for the block
ReadBlockStep(leftToRead, block, pos) ==
    TraversePair(
        IF leftToRead._tag = "Left"
        THEN leftToRead
        ELSE LET stripped == StripStaticText(leftToRead.right, block[1], pos)
             IN  IF stripped._tag = "Left"
                 THEN stripped
                 ELSE LET strippedOfStaticText == stripped.right[2]
                          targetValue == TargetValue(block[3], strippedOfStaticText, pos)
                      IN  IF targetValue._tag = "Left"
                          THEN targetValue
                          ELSE LET strippedOfTargetValue ==
                                       IF targetValue.right._tag = "Some"
                                       THEN SubstringFrom(strippedOfStaticText,
                                                          Len(targetValue.right.value))
                                       ELSE strippedOfStaticText
                               IN  Right(<<strippedOfTargetValue,
                                           <<block[2], targetValue.right>>>>))

\* MArray.match012 in read, lines 214-230, on the values read for one target
Match012(tgts, readValues, pos, e) ==
    IF Len(e) = 0
    THEN Left(NoSuchElementException)
    ELSE IF Len(e) = 1
         THEN Right(JsString(e[1]))
         ELSE Left(TooMany(tgts[pos + 1], FindAll(readValues, pos), e))

\* read, lines 201-236: one result for every target, or the first error
Reconcile(tgts, readValues) ==
    LET groups == GroupByNum(Len(tgts), readValues)
    IN  EitherAll([k \in 1..Len(tgts) |->
            LET all == OptionAll(groups[k])
            IN  IF all._tag = "None"
                THEN Left(NoSuchElementException)
                ELSE Match012(tgts, readValues, k - 1, all.value)])

\* A slip: what is left need only start with the final static text
ReadResultPrefix(slf, accumulator, elements) ==
    LET scanned == EitherAll(<<accumulator, EitherAll(elements)>>)
    IN  IF scanned._tag = "Left"
        THEN scanned
        ELSE LET checked == BadFormatCheck(slf[2], <<Len(slf[1])>>,
                                           Substring(scanned.right[1], 0, Len(slf[2])))
             IN  IF checked._tag = "Left"
                 THEN checked
                 ELSE Reconcile(slf[3], scanned.right[2])

\* A slip: the values are reconciled before the final static text is checked
ReadResultReconcileFirst(slf, accumulator, elements) ==
    LET scanned == EitherAll(<<accumulator, EitherAll(elements)>>)
    IN  IF scanned._tag = "Left"
        THEN scanned
        ELSE LET reconciled == Reconcile(slf[3], scanned.right[2])
                 checked == BadFormatCheck(slf[2], <<Len(slf[1])>>, scanned.right[1])
             IN  IF reconciled._tag = "Left"
                 THEN reconciled
                 ELSE IF checked._tag = "Left" THEN checked ELSE reconciled

\* read, lines 186-237: what read returns once Array.mapAccum has visited the blocks
ReadResult(slf, accumulator, elements) ==
    LET scanned == EitherAll(<<accumulator, EitherAll(elements)>>)
    IN  IF scanned._tag = "Left"
        THEN scanned
        ELSE LET checked == BadFormatCheck(slf[2], <<Len(slf[1])>>, scanned.right[1])
             IN  IF checked._tag = "Left"
                 THEN checked
                 ELSE Reconcile(slf[3], scanned.right[2])

-----------------------------------------------------------------------------
(* make, step by step *)

InitMake ==
    /\ pc = "search"
    /\ template \in Strs(Alphabet, MaxTemplateLen)
    /\ targets \in Lists(Strs(Alphabet, MaxTargetLen), MaxTargets)
    /\ remaining = <<>>
    /\ chopped = <<>>
    /\ self = Nothing
    /\ targetValues = Nothing
    /\ written = Nothing
    /\ targetPatterns = Nothing
    /\ filledOutTemplate = Nothing
    /\ position = 0
    /\ leftToReadEither = Nothing
    /\ values = Nothing
    /\ result = Nothing

\* make, lines 38-47: search every target, merge and sort the occurrences
Search ==
    /\ pc = "search"
    /\ remaining' = IndexedSearchResults(template, targets)
    /\ pc' = "chop"
    /\ UNCHANGED <<template, targets, chopped, self, targetValues, written, targetPatterns,
                   filledOutTemplate, position, leftToReadEither, values, result>>

\* One iteration of Array.chop
Chop ==
    /\ pc = "chop"
    /\ remaining # <<>>
    /\ Len(chopped) < MaxChopped
    /\ LET step == ChopStep(remaining)
       IN  /\ chopped' = Append(chopped, step[1])
           /\ remaining' = step[2]
    /\ UNCHANGED <<pc, template, targets, self, targetValues, written, targetPatterns,
                   filledOutTemplate, position, leftToReadEither, values, result>>

\* make, lines 56-64, once Array.chop has ended
Finish ==
    /\ pc = "chop"
    /\ remaining = <<>>
    /\ self' = Compiled(template, targets, chopped)
    /\ pc' = "made"
    /\ UNCHANGED <<template, targets, remaining, chopped, targetValues, written,
                   targetPatterns, filledOutTemplate, position, leftToReadEither, values,
                   result>>

NextMake == Search \/ Chop \/ Finish

SpecMake == InitMake /\ [][NextMake]_vars

-----------------------------------------------------------------------------
(* write and read, on a compiled template *)

\* A template compiled by make for targets of one character
InitCompiled ==
    /\ pc = "made"
    /\ template \in Strs(Alphabet, MaxCompiledTemplateLen)
    /\ targets \in Lists({<<c>> : c \in Alphabet}, MaxCompiledTargets)
    /\ remaining = <<>>
    /\ chopped = <<>>
    /\ self = make(template, targets)
    /\ targetValues = Nothing
    /\ written = Nothing
    /\ targetPatterns = Nothing
    /\ filledOutTemplate = Nothing
    /\ position = 0
    /\ leftToReadEither = Nothing
    /\ values = Nothing
    /\ result = Nothing

\* write(self)(targetValues), with fewer values than targets, as many, or one more
Write ==
    /\ pc = "made"
    /\ \E tv \in Lists(Strs(Alphabet, MaxValueLen), Len(targets) + 1) :
           /\ targetValues' = tv
           /\ written' = write(self, tv)
    /\ pc' = "written"
    /\ UNCHANGED <<template, targets, remaining, chopped, self, targetPatterns,
                   filledOutTemplate, position, leftToReadEither, values, result>>

NextWrite == Write

SpecWrite == InitCompiled /\ [][NextWrite]_vars

\* read(self, targetPatterns)(filledOutTemplate), up to the first call of the
\* function passed to Array.mapAccum; there are as many patterns as targets, or fewer
ReadStart ==
    /\ pc = "made"
    /\ \E tp \in Lists(Patterns, Len(targets)) : targetPatterns' = tp
    /\ \E f \in Strs(Alphabet, MaxFilledOutLen) :
           /\ filledOutTemplate' = f
           /\ leftToReadEither' = Right(f)
    /\ position' = 0
    /\ values' = <<>>
    /\ pc' = "scan"
    /\ UNCHANGED <<template, targets, remaining, chopped, self, targetValues, written, result>>

\* Array.mapAccum visits the block at position
ReadBlock ==
    /\ pc = "scan"
    /\ position < Len(self[1])
    /\ LET block == TextAndPatternArray(self, targetPatterns)[position + 1]
           step == ReadBlockStep(leftToReadEither, block, position)
       IN  /\ leftToReadEither' = step[1]
           /\ values' = Append(values, step[2])
    /\ position' = position + 1
    /\ UNCHANGED <<pc, template, targets, remaining, chopped, self, targetValues, written,
                   targetPatterns, filledOutTemplate, result>>

\* Array.mapAccum has visited every block: read returns
ReadFinish ==
    /\ pc = "scan"
    /\ position = Len(self[1])
    /\ result' = ReadResult(self, leftToReadEither, values)
    /\ pc' = "read"
    /\ UNCHANGED <<template, targets, remaining, chopped, self, targetValues, written,
                   targetPatterns, filledOutTemplate, position, leftToReadEither, values>>

NextRead == ReadStart \/ ReadBlock \/ ReadFinish

SpecRead == InitCompiled /\ [][NextRead]_vars

-----------------------------------------------------------------------------
(* The compiled template *)

\* The occurrences of all targets, as searched, before they are sorted
RawOccurrences ==
    LET raw == Ungroup([i \in 1..Len(targets) |-> SearchAll(targets[i], template)], 0)
    IN  {raw[i] : i \in 1..Len(raw)}

\* C1: once make has returned, the static text of every block followed by the
\* target of the block, block after block, and then the final static text, is
\* the template.
C1_Reassembly ==
    pc = "made" =>
        LET blocks == self[1]
        IN  Join([i \in 1..Len(blocks) |-> blocks[i][1] \o self[3][blocks[i][2] + 1]])
                \o self[2] = template

\* make has returned at least two blocks, after dropping an occurrence that
\* overlapped a kept one, and some static text lies before a block
C1_Witness ==
    /\ pc = "made"
    /\ Len(self[1]) >= 2
    /\ Cardinality(RawOccurrences) > Len(chopped)
    /\ \E i \in 1..Len(self[1]) : self[1][i][1] # <<>>

\* C2: once make has returned, the kept occurrences do not overlap and start at
\* strictly increasing indices; each is an occurrence of a target, and the first
\* in the order (startIndex ascending, endIndex descending) among those that do
\* not start below the end of the previous kept one; no occurrence starts at or
\* after the end of the last kept one; and the blocks are the kept occurrences
\* in order, so that of two targets found at the same start the longer one is
\* the target of the block.
C2_ForemostLongest ==
    pc = "made" =>
        LET K == chopped
            EndBefore(j) == IF j = 1 THEN 0 ELSE K[j - 1][2].endIndex
        IN  /\ \A j \in 1..(Len(K) - 1) :
                  /\ K[j][2].endIndex <= K[j + 1][2].startIndex
                  /\ K[j][2].startIndex < K[j + 1][2].startIndex
            /\ \A j \in 1..Len(K) :
                  /\ K[j] \in RawOccurrences
                  /\ K[j][2].startIndex >= EndBefore(j)
                  /\ \A o \in RawOccurrences :
                         o[2].startIndex >= EndBefore(j) =>
                             \/ K[j][2].startIndex < o[2].startIndex
                             \/ /\ K[j][2].startIndex = o[2].startIndex
                                /\ K[j][2].endIndex >= o[2].endIndex
            /\ \A o \in RawOccurrences : o[2].startIndex < EndBefore(Len(K) + 1)
            /\ Len(self[1]) = Len(K)
            /\ \A j \in 1..Len(K) :
                  /\ self[1][j][2] = K[j][1]
                  /\ self[1][j][1] = SubSeq(template, EndBefore(j) + 1, K[j][2].startIndex)

\* make has returned a block for a target that starts where a shorter target
\* also occurs
C2_Witness ==
    /\ pc = "made"
    /\ \E j \in 1..Len(chopped) : \E o \in RawOccurrences :
           /\ o[2].startIndex = chopped[j][2].startIndex
           /\ o[2].endIndex < chopped[j][2].endIndex
           /\ self[1][j][2] = chopped[j][1]

\* C9: every iteration of Array.chop removes at least one occurrence from what
\* is left to partition, whatever the template and the targets, so that make
\* ends.
C9_ChopProgress ==
    [][(pc = "chop" /\ pc' = "chop") => Len(remaining') < Len(remaining)]_vars

-----------------------------------------------------------------------------
(* The written string *)

\* What the blocks from the i-th on and the final static text come to with the
\* values tv, the value of a block being '' when tv has none at its target index
RECURSIVE Filled(_, _)
Filled(i, tv) ==
    IF i > Len(self[1])
    THEN self[2]
    ELSE LET targetIndex == self[1][i][2]
         IN  self[1][i][1]
                 \o (IF targetIndex + 1 \in DOMAIN tv THEN tv[targetIndex + 1] ELSE <<>>)
                 \o Filled(i + 1, tv)

\* The target indices the blocks hold
Referenced == {self[1][i][2] : i \in 1..Len(self[1])}

\* C3: write returns the static text of every block followed by the value at
\* the target index of the block, '' when the values hold none there, block
\* after block, and then the final static text; the values no block refers to,
\* the ones past the number of targets among them, change nothing.
C3_Write ==
    pc = "written" =>
        /\ written = Filled(1, targetValues)
        /\ written = write(self, SubSeq(targetValues, 1, Min(Len(targetValues), Len(targets))))
        /\ written = write(self, [i \in 1..Len(targetValues) |->
                                     IF i - 1 \in Referenced THEN targetValues[i] ELSE <<>>])

\* write has been given a value too few and has filled two blocks, and it has
\* been given a value too many
C3_Witness ==
    /\ pc = "written"
    /\ Len(self[1]) >= 2
    /\ \E i \in 1..Len(self[1]) : self[1][i][2] >= Len(targetValues)
    /\ \E i \in 1..Len(self[1]) :
           self[1][i][2] < Len(targetValues) /\ targetValues[self[1][i][2] + 1] # <<>>

-----------------------------------------------------------------------------
(* The scan of read *)

NumBlocks == Len(self[1])

IsPrefix(p, s) == Len(p) <= Len(s) /\ SubSeq(s, 1, Len(p)) = p

Drop(s, n) == SubSeq(s, n + 1, Len(s))

\* Has the target of index t a pattern
HasPattern(t) == t < Len(targetPatterns)

\* The number of characters of filledOutTemplate that the blocks 0 .. k-1 take
\* when each of them matches where the previous one ends: its static text, and
\* then what the pattern of its target matches, if the target has a pattern;
\* -1 when one of them does not match
RECURSIVE Consumed(_)
Consumed(k) ==
    IF k = 0
    THEN 0
    ELSE LET before == Consumed(k - 1)
             block == self[1][k]
             rest == Drop(filledOutTemplate, before)
             afterText == Drop(rest, Len(block[1]))
         IN  IF before = -1 \/ ~IsPrefix(block[1], rest)
             THEN -1
             ELSE IF ~HasPattern(block[2])
                  THEN before + Len(block[1])
                  ELSE LET m == Match(targetPatterns[block[2] + 1], afterText)
                       IN  IF m._tag = "None"
                           THEN -1
                           ELSE before + Len(block[1]) + Len(m.value)

\* What is left of filledOutTemplate for the block of ordinal k (for the final
\* static text when k is the number of blocks), the earlier blocks matching
RestAt(k) == Drop(filledOutTemplate, Consumed(k))

StaticTextOf(k) == self[1][k + 1][1]
TargetIndexOf(k) == self[1][k + 1][2]

\* The static text of the block of ordinal k is not what is left starts with
StaticTextFails(k) == Consumed(k) # -1 /\ ~IsPrefix(StaticTextOf(k), RestAt(k))

\* The block of ordinal k is the first that does not match
FirstFailure(k) == Consumed(k) # -1 /\ Consumed(k + 1) = -1

\* Every block matches, and what is left is the final static text
StructureMatches == Consumed(NumBlocks) # -1 /\ RestAt(NumBlocks) = self[2]

\* The ordinals of the blocks at which a value is captured for the target of
\* index t, in order, every block matching
RECURSIVE CapturedFrom(_, _)
CapturedFrom(t, k) ==
    IF k >= NumBlocks
    THEN <<>>
    ELSE (IF TargetIndexOf(k) = t /\ HasPattern(t) THEN <<k>> ELSE <<>>)
             \o CapturedFrom(t, k + 1)

CapturedAt(t) == CapturedFrom(t, 0)

\* The value captured at the block of ordinal k, that block and the earlier
\* ones matching
CaptureOf(k) ==
    SubSeq(filledOutTemplate, Consumed(k) + Len(StaticTextOf(k)) + 1, Consumed(k + 1))

IsBadFormat(either) == either._tag = "Left" /\ either.left._tag = "BadFormat"
IsTooMany(either) == either._tag = "Left" /\ either.left._tag = "TooMany"

\* C7: for a block of ordinal k that the scan has visited, the earlier blocks
\* matching: if what is left does not start with the static text of the block
\* (what is left being shorter included), the block outputs a BadFormat that
\* expects the static text at position k, and read returns it; if it does, the
\* pattern of the target is matched exactly Len(staticText) characters further,
\* and the scan goes on after the static text and the value.
C7_StaticText ==
    pc \in {"scan", "read"} =>
        \A k \in 0..(position - 1) :
            Consumed(k) # -1 =>
                IF StaticTextFails(k)
                THEN /\ IsBadFormat(values[k + 1])
                     /\ values[k + 1].left.expected = StaticTextOf(k)
                     /\ values[k + 1].left.positions = <<k>>
                     /\ pc = "read" => result = values[k + 1]
                ELSE LET stripped == Drop(RestAt(k), Len(StaticTextOf(k)))
                         element == values[k + 1]
                         captured ==
                             IF element._tag = "Right" /\ element.right[2]._tag = "Some"
                             THEN element.right[2].value
                             ELSE <<>>
                     IN  /\ IsBadFormat(element) =>
                                /\ element.left.expected # StaticTextOf(k)
                                /\ element.left.actual = stripped
                         /\ element._tag = "Right" =>
                                /\ IsPrefix(captured, stripped)
                                /\ position = k + 1 =>
                                       leftToReadEither = Right(Drop(stripped, Len(captured)))

\* read has returned after the scan visited a block whose static text is longer
\* than what was left, after a block whose pattern matched
C7_Witness ==
    /\ pc = "read"
    /\ \E k \in 1..(NumBlocks - 1) :
           /\ StaticTextFails(k)
           /\ Len(RestAt(k)) < Len(StaticTextOf(k))
           /\ HasPattern(TargetIndexOf(k - 1))

\* C8: when every block has matched, read returns a BadFormat that expects the
\* final static text at the position that is the number of blocks if what is
\* left is not the final static text, be it longer, shorter or other, and no
\* BadFormat if it is; read returns a right only if every block has matched and
\* what is left is the final static text.
C8_FinalStaticText ==
    pc = "read" =>
        /\ Consumed(NumBlocks) # -1 =>
               IF RestAt(NumBlocks) = self[2]
               THEN ~IsBadFormat(result)
               ELSE result = Left(BadFormat(self[2], RestAt(NumBlocks), <<NumBlocks>>))
        /\ result._tag = "Right" => StructureMatches

\* read has returned after every block matched and what was left started with
\* the final static text and went on
C8_Witness ==
    /\ pc = "read"
    /\ NumBlocks >= 1
    /\ Consumed(NumBlocks) # -1
    /\ self[2] # <<>>
    /\ IsPrefix(self[2], RestAt(NumBlocks))
    /\ Len(RestAt(NumBlocks)) > Len(self[2])

\* C10: read returns the first failure of the scan: if a block does not match,
\* the BadFormat of the first such block (its static text or else its pattern
\* expected, its ordinal the position); a BadFormat at the position of the final
\* static text only if every block has matched; a TooMany only if every block
\* and the final static text have matched.
C10_EarliestFailure ==
    pc = "read" =>
        /\ \A k \in 0..(NumBlocks - 1) :
               FirstFailure(k) =>
                   /\ IsBadFormat(result)
                   /\ result.left.positions = <<k>>
                   /\ result.left.expected =
                          IF StaticTextFails(k)
                          THEN StaticTextOf(k)
                          ELSE targetPatterns[TargetIndexOf(k) + 1]
        /\ (IsBadFormat(result) /\ result.left.positions = <<NumBlocks>>) =>
               Consumed(NumBlocks) # -1
        /\ IsTooMany(result) => StructureMatches

\* read has returned a BadFormat for a filled-out template in which it had
\* captured two values for one target before the failure
C10_Witness ==
    /\ pc = "read"
    /\ IsBadFormat(result)
    /\ \E i, j \in 1..Len(values) :
           /\ i < j
           /\ values[i]._tag = "Right" /\ values[j]._tag = "Right"
           /\ values[i].right[1] = values[j].right[1]
           /\ values[i].right[2]._tag = "Some" /\ values[j].right[2]._tag = "Some"

\* C5: when every block and the final static text match, read returns a right
\* that holds a none for every target for which no value was captured: the
\* targets in no block and the targets without a pattern.
C5_AbsenceIsNone ==
    (pc = "read" /\ StructureMatches) =>
        /\ result._tag = "Right"
        /\ \A t \in 0..(Len(targets) - 1) :
               CapturedAt(t) = <<>> => result.right[t + 1] = None

\* C6: when every block and the final static text match and a value was captured
\* at two blocks or more for some target, read returns a TooMany that names such
\* a target, the ordinals of the blocks that captured a value for it and the
\* values captured there, be they the same or not.
C6_TooMany ==
    (pc = "read" /\ StructureMatches
        /\ \E t \in 0..(Len(targets) - 1) : Len(CapturedAt(t)) >= 2) =>
        /\ IsTooMany(result)
        /\ \E t \in 0..(Len(targets) - 1) :
               /\ Len(CapturedAt(t)) >= 2
               /\ result.left.id = targets[t + 1]
               /\ result.left.positions = CapturedAt(t)
               /\ result.left.elements =
                      [j \in 1..Len(CapturedAt(t)) |-> CaptureOf(CapturedAt(t)[j])]

\* Does every pattern, where the value of its target starts in the string
\* written with the values tv, match that value exactly
RECURSIVE PatternsMatchFrom(_, _)
PatternsMatchFrom(i, tv) ==
    IF i > Len(self[1])
    THEN TRUE
    ELSE LET t == self[1][i][2]
             fromValue == Drop(Filled(i, tv), Len(self[1][i][1]))
         IN  /\ Match(targetPatterns[t + 1], fromValue) = Some(tv[t + 1])
             /\ PatternsMatchFrom(i + 1, tv)

\* C4: read, given the string write returns for a value per target and a
\* pattern per target that matches the written value exactly where it stands,
\* returns a right that holds, for every target i, some(values[i]).
C4_RoundTrip ==
    pc = "read" =>
        \A tv \in [1..Len(targets) -> Strs(Alphabet, MaxValueLen)] :
            (/\ filledOutTemplate = write(self, tv)
             /\ Len(targetPatterns) = Len(targets)
             /\ PatternsMatchFrom(1, tv)) =>
                result = Right([i \in 1..Len(targets) |-> Some(tv[i])])

====
